---- MODULE Spec2Model ----
(***************************************************************************)
(* Rainbow general fit (light_curve_py/features/rainbow): the pluggable    *)
(* bolometric and temperature strategies, the merged parameter vector,     *)
(* the un-scaling of fitted parameters, the merge of initial guesses and   *)
(* limits, the peak time and the fit call.                                 *)
(*                                                                         *)
(* Numbers are integers.  Times handed to the guess and limit functions    *)
(* are counted in 1/Unit of a time unit, so that the literals 1.0, 0.1 and *)
(* 1e-4 of the source are Unit, Unit \div 10 and Unit \div 10000.          *)
(* Exponentials are fixed-point: FP stands for 1.0.                        *)
(***************************************************************************)
EXTENDS Integers, Sequences, FiniteSets, TLC

VARIABLES
    bolometric,     \* RainbowGeneralFit.bolometric
    temperature,    \* RainbowGeneralFit.temperature
    with_baseline,  \* RainbowGeneralFit.with_baseline
    bands,          \* RainbowGeneralFit.bands.names
    t,              \* time array of the light curve in hand
    m,              \* flux array of the light curve in hand
    initial,        \* dictionary returned by _initial_guesses
    limits,         \* dictionary returned by _limits
    params,         \* parameter array in hand (mutated in place by _unscale_parameters)
    call,           \* the last call: its name and its arguments
    ret             \* what the last call returned

vars == <<bolometric, temperature, with_baseline, bands, t, m, initial, limits,
          params, call, ret>>

----------------------------------------------------------------------------
(* Bounds of the model *)

MaxLen == 2
MaxBands == 4
Unit == 10000
FP == 1000

(* Program constant: the guard factor of the exponent, 100 times the timescale *)
GuardFactor == 100

----------------------------------------------------------------------------
(* Helpers on sequences and dictionaries *)

Range(s) == {s[i] : i \in DOMAIN s}

InSeq(x, s) == \E i \in DOMAIN s : s[i] = x

\* [j for j in s if keep(j)]
RECURSIVE SelectIn(_, _)
SelectIn(s, other) ==
    IF s = <<>> THEN <<>>
    ELSE IF InSeq(Head(s), other) THEN <<Head(s)>> \o SelectIn(Tail(s), other)
         ELSE SelectIn(Tail(s), other)

RECURSIVE SelectNotIn(_, _)
SelectNotIn(s, other) ==
    IF s = <<>> THEN <<>>
    ELSE IF InSeq(Head(s), other) THEN SelectNotIn(Tail(s), other)
         ELSE <<Head(s)>> \o SelectNotIn(Tail(s), other)

Count(x, s) == Cardinality({i \in DOMAIN s : s[i] = x})

\* list.index(x): the first position of x
IndexOf(x, s) == CHOOSE i \in DOMAIN s : s[i] = x /\ \A j \in 1..(i - 1) : s[j] # x

EmptyDict == [n \in {} |-> 0]

SeqMin_set(S) == CHOOSE x \in S : \A y \in S : x <= y
SeqMin(s) == CHOOSE x \in Range(s) : \A y \in Range(s) : x <= y
SeqMax(s) == CHOOSE x \in Range(s) : \A y \in Range(s) : y <= x
\* np.ptp
ptp(s) == SeqMax(s) - SeqMin(s)
\* np.argmax: the first index of the maximum
argmax(s) == CHOOSE i \in DOMAIN s : s[i] = SeqMax(s) /\ \A j \in 1..(i - 1) : s[j] # SeqMax(s)

----------------------------------------------------------------------------
(* Strategy declarations: parameter names and evaluation signatures *)

sigmoid_signature == <<"t", "t0", "amplitude", "rise_time">>
bazin_signature == <<"t", "t0", "amplitude", "rise_time", "fall_time">>
constant_signature == <<"t", "T">>
logistic_signature == <<"t", "t0", "Tmin", "Tmax", "k_sig">>

sigmoid_parameter_names_swapped == <<"amplitude", "reference_time", "rise_time">>
sigmoid_parameter_names == <<"reference_time", "amplitude", "rise_time">>
bazin_parameter_names == <<"reference_time", "amplitude", "rise_time", "fall_time">>
constant_parameter_names == <<"T">>
logistic_parameter_names == <<"reference_time", "Tmin", "Tmax", "k_sig">>

BolometricNames == {"sigmoid", "bazin"}
TemperatureNames == {"constant", "logistic"}

\* bolometric_dict[b][1], temperature_dict[k][1]
bolometric_parameters(b) ==
    IF b = "sigmoid" THEN sigmoid_parameter_names ELSE bazin_parameter_names
temperature_parameters(k) ==
    IF k = "constant" THEN constant_parameter_names ELSE logistic_parameter_names

\* the signature of bolometric_dict[b][0], temperature_dict[k][0]
bolometric_signature(b) ==
    IF b = "sigmoid" THEN sigmoid_signature ELSE bazin_signature
temperature_signature(k) ==
    IF k = "constant" THEN constant_signature ELSE logistic_signature

----------------------------------------------------------------------------
(* RainbowGeneralFit: the three name lists *)

_common_parameter_names ==
    SelectIn(bolometric_parameters(bolometric), temperature_parameters(temperature))

_bolometric_parameter_names_all == bolometric_parameters(bolometric)
_bolometric_parameter_names ==
    SelectNotIn(bolometric_parameters(bolometric), _common_parameter_names)

_temperature_parameter_names_all == temperature_parameters(temperature)
_temperature_parameter_names ==
    SelectNotIn(temperature_parameters(temperature), _common_parameter_names)

----------------------------------------------------------------------------
(* The parameter registry self.p and the band registry *)

BandUniverse == <<"g", "r", "i", "z", "y", "u">>

baseline_parameter_name(b) ==
    CASE b = "g" -> "baseline_g" [] b = "r" -> "baseline_r" [] b = "i" -> "baseline_i"
      [] b = "z" -> "baseline_z" [] b = "y" -> "baseline_y" [] OTHER -> "baseline_u"

_baseline_parameter_names ==
    IF with_baseline THEN [i \in DOMAIN bands |-> baseline_parameter_name(bands[i])]
    ELSE <<>>

\* the members of self.p, in slot order
p_names ==
    _common_parameter_names \o _bolometric_parameter_names
        \o _temperature_parameter_names \o _baseline_parameter_names

\* hasattr(self.p, name) and self.p.<name>
hasattr_p(name) == InSeq(name, p_names)
p_idx(name) == IndexOf(name, p_names)

common_idx == [i \in 1..Len(_common_parameter_names) |-> i]
bol_idx ==
    [i \in 1..Len(_bolometric_parameter_names) |-> Len(_common_parameter_names) + i]
temp_idx ==
    [i \in 1..Len(_temperature_parameter_names) |->
        Len(_common_parameter_names) + Len(_bolometric_parameter_names) + i]
all_bol_idx == common_idx \o bol_idx
all_temp_idx == common_idx \o temp_idx

\* the names of the returned vector: the slots, then the reduced chi-square
names == p_names \o <<"rainbow_chi2_dof">>
size == Len(names)

----------------------------------------------------------------------------
(* Fixed-point exponential.  ExpQ[n] stands for FP * e^(n/4); np.exp(x) of a *)
(* quotient x = num/den is taken at the quarter at or below x, and          *)
(* saturates beyond ExpSteps quarters (0 below, ExpQ[ExpSteps] above).      *)

ExpSteps == 28
ExpQuarter == (1284 * FP) \div 1000
ExpNegQuarter == (779 * FP) \div 1000

ExpQ[n \in (-ExpSteps)..ExpSteps] ==
    IF n = 0 THEN FP
    ELSE IF n > 0 THEN (ExpQ[n - 1] * ExpQuarter) \div FP
         ELSE (ExpQ[n + 1] * ExpNegQuarter) \div FP

Exp(num, den) ==
    LET n == (4 * num) \div den
    IN  IF n > ExpSteps THEN ExpQ[ExpSteps]
        ELSE IF n < -ExpSteps THEN 0
             ELSE ExpQ[n]

----------------------------------------------------------------------------
(* bolometric.py: sigmoid and bazin, evaluated at one element tt of t *)

sigmoid_idx(tt, t0, rise_time) == (tt - t0) > (-GuardFactor) * rise_time

sigmoid(tt, t0, amplitude, rise_time) ==
    LET dt == tt - t0
        result0 == 0
    IN  IF sigmoid_idx(tt, t0, rise_time)
        THEN (amplitude * FP) \div (Exp(-dt, rise_time) + FP)
        ELSE result0

bazin_idx(tt, t0, rise_time, fall_time) ==
    /\ (tt - t0) > (-GuardFactor) * rise_time
    /\ (tt - t0) < GuardFactor * fall_time

bazin(tt, t0, amplitude, rise_time, fall_time) ==
    LET dt == tt - t0
        result0 == 0
    IN  IF bazin_idx(tt, t0, rise_time, fall_time)
        THEN (amplitude * FP) \div (Exp(-dt, rise_time) + Exp(dt, fall_time))
        ELSE result0

(* temperature.py: constant and logistic *)

constant(tt, T) == T

\* the three masks idx1, idx2, idx3 at element tt
logistic_idx(tt, t0, k_sig) ==
    LET dt == tt - t0
    IN  << dt <= (-GuardFactor) * k_sig,
           (dt > (-GuardFactor) * k_sig) /\ (dt < GuardFactor * k_sig),
           dt >= GuardFactor * k_sig >>

\* the formula assigned under idx2
logistic_formula(tt, t0, Tmin, Tmax, k_sig) ==
    Tmin + ((Tmax - Tmin) * FP) \div (FP + Exp(tt - t0, k_sig))

logistic(tt, t0, Tmin, Tmax, k_sig) ==
    LET idx == logistic_idx(tt, t0, k_sig)
        result0 == 0
        result1 == IF idx[1] THEN Tmin ELSE result0
        result2 == IF idx[2] THEN logistic_formula(tt, t0, Tmin, Tmax, k_sig) ELSE result1
        result3 == IF idx[3] THEN Tmax ELSE result2
    IN  result3

----------------------------------------------------------------------------
(* Initial guesses and limits of the strategies *)

sigmoid_initial_guesses(baseline, tt, mm) ==
    LET A == IF baseline THEN ptp(mm) ELSE SeqMax(mm)
    IN  [n \in {"reference_time", "amplitude", "rise_time"} |->
            CASE n = "reference_time" -> tt[argmax(mm)]
              [] n = "amplitude" -> A
              [] OTHER -> Unit]

sigmoid_limits(baseline, tt, mm) ==
    LET t_amplitude == ptp(tt)
        m_amplitude == IF baseline THEN ptp(mm) ELSE SeqMax(mm)
    IN  [n \in {"reference_time", "amplitude", "rise_time"} |->
            CASE n = "reference_time" ->
                    <<SeqMin(tt) - 10 * t_amplitude, SeqMax(tt) + 10 * t_amplitude>>
              [] n = "amplitude" -> <<0, 10 * m_amplitude>>
              [] OTHER -> <<Unit \div 10000, 10 * t_amplitude>>]

bazin_initial_guesses(baseline, tt, mm) ==
    LET A == IF baseline THEN ptp(mm) ELSE SeqMax(mm)
    IN  [n \in {"reference_time", "amplitude", "rise_time", "fall_time"} |->
            CASE n = "reference_time" -> tt[argmax(mm)]
              [] n = "amplitude" -> A
              [] OTHER -> Unit \div 10]

bazin_limits(baseline, tt, mm) ==
    LET t_amplitude == ptp(tt)
        m_amplitude == IF baseline THEN ptp(mm) ELSE SeqMax(mm)
    IN  [n \in {"reference_time", "amplitude", "rise_time", "fall_time"} |->
            CASE n = "reference_time" ->
                    <<SeqMin(tt) - 10 * t_amplitude, SeqMax(tt) + 10 * t_amplitude>>
              [] n = "amplitude" -> <<0, 10 * m_amplitude>>
              [] OTHER -> <<Unit \div 10000, 10 * t_amplitude>>]

constant_initial_guesses(tt, mm) == [n \in {"T"} |-> 8000]

constant_limits(tt, mm) == [n \in {"T"} |-> <<100, 2000000>>]

logistic_initial_guesses_no_k_sig(tt, mm) ==
    [n \in {"Tmin", "Tmax"} |-> IF n = "Tmin" THEN 4000 ELSE 10000]

logistic_initial_guesses(tt, mm) ==
    [n \in {"Tmin", "Tmax", "k_sig"} |->
        CASE n = "Tmin" -> 4000
          [] n = "Tmax" -> 10000
          [] OTHER -> Unit]

logistic_limits(tt, mm) ==
    LET t_amplitude == ptp(tt)
    IN  [n \in {"Tmin", "Tmax", "k_sig"} |->
            CASE n = "Tmin" -> <<100, 1000000>>
              [] n = "Tmax" -> <<100, 1000000>>
              [] OTHER -> <<Unit \div 10000, 10 * t_amplitude>>]

\* bolometric_dict[b][2], [3] and temperature_dict[k][2], [3]
bolometric_initial_guesses(b, baseline, tt, mm) ==
    IF b = "sigmoid" THEN sigmoid_initial_guesses(baseline, tt, mm)
    ELSE bazin_initial_guesses(baseline, tt, mm)
bolometric_limits(b, baseline, tt, mm) ==
    IF b = "sigmoid" THEN sigmoid_limits(baseline, tt, mm)
    ELSE bazin_limits(baseline, tt, mm)
temperature_initial_guesses(k, tt, mm) ==
    IF k = "constant" THEN constant_initial_guesses(tt, mm)
    ELSE logistic_initial_guesses(tt, mm)
temperature_limits(k, tt, mm) ==
    IF k = "constant" THEN constant_limits(tt, mm)
    ELSE logistic_limits(tt, mm)

----------------------------------------------------------------------------
(* RainbowGeneralFit: merge of guesses and limits *)

DictUnionLeftWins(a, b) ==
    [n \in (DOMAIN a) \cup (DOMAIN b) |-> IF n \in DOMAIN a THEN a[n] ELSE b[n]]

\* a | b: the right operand's value is kept for a key of both
DictUnion(a, b) ==
    [n \in (DOMAIN a) \cup (DOMAIN b) |-> IF n \in DOMAIN b THEN b[n] ELSE a[n]]

_initial_guesses(tt, mm) ==
    LET initial_bolo == bolometric_initial_guesses(bolometric, with_baseline, tt, mm)
        initial_temp == temperature_initial_guesses(temperature, tt, mm)
    IN  DictUnion(initial_bolo, initial_temp)

_limits(tt, mm) ==
    LET limits_bolo == bolometric_limits(bolometric, with_baseline, tt, mm)
        limits_temp == temperature_limits(temperature, tt, mm)
    IN  DictUnion(limits_bolo, limits_temp)

----------------------------------------------------------------------------
(* Band frequencies (in 1e14 Hz) and their mean, self.average_nu *)

band_nu(b) ==
    CASE b = "g" -> 6 [] b = "r" -> 5 [] b = "i" -> 4
      [] b = "z" -> 3 [] b = "y" -> 3 [] OTHER -> 8

RECURSIVE SeqSum(_)
SeqSum(s) == IF s = <<>> THEN 0 ELSE Head(s) + SeqSum(Tail(s))

average_nu == SeqSum([i \in DOMAIN bands |-> band_nu(bands[i])]) \div Len(bands)

(* Scaler and MultiBandScaler: the inverse transforms *)

undo_shift_scale(scaler, x) == scaler.shift + scaler.scale * x
undo_scale(scaler, x) == scaler.scale * x

----------------------------------------------------------------------------
(* RainbowGeneralFit: evaluation, un-scaling and peak time *)

Slice(x, idx) == [i \in DOMAIN idx |-> x[idx[i]]]

bol_func(tt, x) ==
    LET a == Slice(x, all_bol_idx)
    IN  IF bolometric = "sigmoid" THEN sigmoid(tt, a[1], a[2], a[3])
        ELSE bazin(tt, a[1], a[2], a[3], a[4])

temp_func(tt, x) ==
    LET a == Slice(x, all_temp_idx)
    IN  IF temperature = "constant" THEN constant(tt, a[1])
        ELSE logistic(tt, a[1], a[2], a[3], a[4])

_denormalize_bolometric_flux(x) ==
    IF hasattr_p("amplitude")
    THEN [x EXCEPT ![p_idx("amplitude")] = @ * average_nu]
    ELSE x

_unscale_parameters_scaling_Tmin(x, t_scaler, m_scaler) ==
    LET x0 == _denormalize_bolometric_flux(x)
        x1 == IF hasattr_p("reference_time")
              THEN [x0 EXCEPT ![p_idx("reference_time")] = undo_shift_scale(t_scaler, @)]
              ELSE x0
        x2 == IF hasattr_p("rise_time")
              THEN [x1 EXCEPT ![p_idx("rise_time")] = undo_scale(t_scaler, @)]
              ELSE x1
        x3 == IF hasattr_p("fall_time")
              THEN [x2 EXCEPT ![p_idx("fall_time")] = undo_scale(t_scaler, @)]
              ELSE x2
        x4 == IF hasattr_p("Tmin")
              THEN [x3 EXCEPT ![p_idx("Tmin")] = undo_scale(t_scaler, @)]
              ELSE x3
        x5 == IF hasattr_p("amplitude")
              THEN [x4 EXCEPT ![p_idx("amplitude")] = undo_scale(m_scaler, @)]
              ELSE x4
    IN  x5

_unscale_parameters(x, t_scaler, m_scaler) ==
    LET x0 == _denormalize_bolometric_flux(x)
        x1 == IF hasattr_p("reference_time")
              THEN [x0 EXCEPT ![p_idx("reference_time")] = undo_shift_scale(t_scaler, @)]
              ELSE x0
        x2 == IF hasattr_p("rise_time")
              THEN [x1 EXCEPT ![p_idx("rise_time")] = undo_scale(t_scaler, @)]
              ELSE x1
        x3 == IF hasattr_p("fall_time")
              THEN [x2 EXCEPT ![p_idx("fall_time")] = undo_scale(t_scaler, @)]
              ELSE x2
        x4 == IF hasattr_p("k_sig")
              THEN [x3 EXCEPT ![p_idx("k_sig")] = undo_scale(t_scaler, @)]
              ELSE x3
        x5 == IF hasattr_p("amplitude")
              THEN [x4 EXCEPT ![p_idx("amplitude")] = undo_scale(m_scaler, @)]
              ELSE x4
    IN  x5

peak_time(x) == x[p_idx("reference_time")]

----------------------------------------------------------------------------
(* The fit call: Scaler from the data, optimizer outcome, fill_value *)

\* Scaler.from_time and MultiBandScaler.from_flux
t_scaler_from(tt) == [shift |-> SeqMin(tt), scale |-> ptp(tt)]
m_scaler_from(mm) ==
    LET spread == IF with_baseline THEN ptp(mm) ELSE SeqMax(mm)
    IN  [scale |-> IF spread > 0 THEN spread ELSE 1]

\* the time span is zero: the data cannot be scaled
degenerate(tt) == ptp(tt) = 0

\* fill_value is <<>> for None and <<v>> for the value v
eval_and_fill_zeros(failed, fill_value, x, chi2) ==
    IF failed
    THEN [kind |-> "return", value |-> [i \in 1..size |-> 0]]
    ELSE [kind |-> "return", value |-> x \o <<chi2>>]

eval_and_fill(failed, fill_value, x, chi2) ==
    IF failed
    THEN IF fill_value # <<>>
         THEN [kind |-> "return", value |-> [i \in 1..size |-> fill_value[1]]]
         ELSE [kind |-> "raise"]
    ELSE [kind |-> "return", value |-> x \o <<chi2>>]

----------------------------------------------------------------------------
(* Inputs *)

TimeValues == {0, Unit \div 20, 2 * Unit}
FluxValues == {-2, 5}
\* the fit call sorts the arrays by time before anything reads them
Ascending(s) == \A i \in 1..(Len(s) - 1) : s[i] <= s[i + 1]
LightCurves ==
    UNION {{tt \in [1..n -> TimeValues] : Ascending(tt)} \X [1..n -> FluxValues] :
            n \in 1..MaxLen}

BandSets == {SubSeq(BandUniverse, 1, n) : n \in 1..MaxBands}

ParamValues(name) ==
    CASE name = "reference_time" -> {3}
      [] name = "amplitude" -> {50}
      [] name = "rise_time" -> {1, 4}
      [] name = "fall_time" -> {1, 4}
      [] name = "T" -> {8000}
      [] name = "Tmin" -> {4000}
      [] name = "Tmax" -> {10000}
      [] name = "k_sig" -> {1, 2}
      [] OTHER -> {7}

RECURSIVE Vectors(_)
Vectors(ns) ==
    IF ns = <<>> THEN {<<>>}
    ELSE {<<v>> \o rest : v \in ParamValues(Head(ns)), rest \in Vectors(Tail(ns))}

\* the optimizer's answer in the fit call
FittedVector == [i \in DOMAIN p_names |-> SeqMin_set(ParamValues(p_names[i]))]

TimeScalers == {[shift |-> sh, scale |-> 3] : sh \in {0, 5}}
FluxScalers == {[scale |-> 2]}
FillValues == {<<>>, <<-1>>}

\* the values of the timescale slots of x
Timescales(x) ==
    {x[p_idx(n)] : n \in {k \in {"rise_time", "fall_time", "k_sig"} : hasattr_p(k)}}

\* times around the reference time and around the switch points of the guards
TimeGrid(x) ==
    {x[p_idx("reference_time")] + sg * GuardFactor * s + e :
        sg \in {-1, 1}, s \in Timescales(x) \cup {0}, e \in {-1, 0, 1}}

NoReturn == [kind |-> "none"]

----------------------------------------------------------------------------
(* State machine *)

Init ==
    /\ bolometric \in BolometricNames
    /\ temperature \in TemperatureNames
    /\ with_baseline \in BOOLEAN
    /\ bands \in BandSets
    /\ t = <<>>
    /\ m = <<>>
    /\ initial = EmptyDict
    /\ limits = EmptyDict
    /\ params = <<>>
    /\ call = [op |-> "__init__"]
    /\ ret = NoReturn

config == <<bolometric, temperature, with_baseline, bands>>

\* a light curve is handed over for fitting; the fit object keeps nothing of
\* an earlier call, so one call sequence per behaviour covers them all
LoadData ==
    \E lc \in LightCurves :
        /\ call.op = "__init__"
        /\ t' = lc[1]
        /\ m' = lc[2]
        /\ initial' = EmptyDict
        /\ limits' = EmptyDict
        /\ params' = <<>>
        /\ call' = [op |-> "data"]
        /\ ret' = NoReturn
        /\ UNCHANGED config

InitialGuesses ==
    /\ t # <<>>
    /\ call.op \in {"data", "_limits"}
    /\ initial' = _initial_guesses(t, m)
    /\ call' = [op |-> "_initial_guesses"]
    /\ ret' = NoReturn
    /\ UNCHANGED <<config, t, m, limits, params>>

Limits ==
    /\ t # <<>>
    /\ call.op \in {"data", "_initial_guesses"}
    /\ limits' = _limits(t, m)
    /\ call' = [op |-> "_limits"]
    /\ ret' = NoReturn
    /\ UNCHANGED <<config, t, m, initial, params>>

\* __call__(t, m, sigma, band, fill_value=...)
Call ==
    \E fill_value \in FillValues, converged \in BOOLEAN :
        LET failed == degenerate(t) \/ ~converged
            fitted == IF failed THEN <<>>
                      ELSE _unscale_parameters(FittedVector, t_scaler_from(t),
                                               m_scaler_from(m))
        IN  /\ t # <<>>
            /\ call.op = "data"
            /\ call' = [op |-> "__call__", fill_value |-> fill_value, failed |-> failed]
            /\ ret' = eval_and_fill(failed, fill_value, fitted, 1)
            /\ UNCHANGED <<config, t, m, initial, limits, params>>

\* a parameter vector in the optimizer's units is in hand
GivenParams ==
    \E x \in Vectors(p_names) :
        /\ call.op = "__init__"
        /\ params' = x
        /\ t' = <<>>
        /\ m' = <<>>
        /\ initial' = EmptyDict
        /\ limits' = EmptyDict
        /\ call' = [op |-> "params"]
        /\ ret' = NoReturn
        /\ UNCHANGED config

UnscaleParameters ==
    \E t_scaler \in TimeScalers, m_scaler \in FluxScalers :
        /\ call.op = "params"
        /\ params' = _unscale_parameters(params, t_scaler, m_scaler)
        /\ call' = [op |-> "_unscale_parameters", t_scaler |-> t_scaler,
                    m_scaler |-> m_scaler]
        /\ ret' = NoReturn
        /\ UNCHANGED <<config, t, m, initial, limits>>

PeakTime ==
    /\ call.op \in {"params", "_unscale_parameters"}
    /\ call' = [op |-> "peak_time"]
    /\ ret' = [kind |-> "return", value |-> peak_time(params)]
    /\ UNCHANGED <<config, t, m, initial, limits, params>>

BolFunc ==
    /\ call.op \in {"params", "_unscale_parameters"}
    /\ \E tt \in TimeGrid(params) :
        /\ call' = [op |-> "bol_func", t |-> tt]
        /\ ret' = [kind |-> "return", value |-> bol_func(tt, params)]
        /\ UNCHANGED <<config, t, m, initial, limits, params>>

TempFunc ==
    /\ call.op \in {"params", "_unscale_parameters"}
    /\ \E tt \in TimeGrid(params) :
        /\ call' = [op |-> "temp_func", t |-> tt]
        /\ ret' = [kind |-> "return", value |-> temp_func(tt, params)]
        /\ UNCHANGED <<config, t, m, initial, limits, params>>

Next ==
    \/ LoadData
    \/ InitialGuesses
    \/ Limits
    \/ Call
    \/ GivenParams
    \/ UnscaleParameters
    \/ PeakTime
    \/ BolFunc
    \/ TempFunc

Spec == Init /\ [][Next]_vars

----------------------------------------------------------------------------
(* Merge of strategy dictionaries on its own: the dictionaries the two     *)
(* strategies hand to _initial_guesses and _limits are drawn from          *)
(* BolometricDicts and TemperatureDicts, where both may supply the         *)
(* reference time.                                                         *)

MergeValues == {1, 2}
DictsOver(keys) == UNION {[K -> MergeValues] : K \in SUBSET keys}
BolometricDicts == DictsOver({"reference_time", "amplitude"})
TemperatureDicts == DictsOver({"reference_time", "Tmin"})

\* the limits a strategy gives around its guess
LimitsAround(d) == [n \in DOMAIN d |-> <<d[n] - 1, d[n] + 1>>]

InitMerge ==
    /\ bolometric = "bazin"
    /\ temperature = "logistic"
    /\ with_baseline = FALSE
    /\ bands = <<"g">>
    /\ t = <<>>
    /\ m = <<>>
    /\ initial = EmptyDict
    /\ limits = EmptyDict
    /\ params = <<>>
    /\ ret = NoReturn
    /\ \E a \in BolometricDicts, b \in TemperatureDicts :
            call = [op |-> "strategies", initial_bolo |-> a, initial_temp |-> b,
                    limits_bolo |-> LimitsAround(a), limits_temp |-> LimitsAround(b)]

\* return initial_bolo | initial_temp
MergeGuesses ==
    /\ ret.kind = "none"
    /\ initial' = DictUnion(call.initial_bolo, call.initial_temp)
    /\ ret' = [kind |-> "return", value |-> "_initial_guesses"]
    /\ UNCHANGED <<config, t, m, limits, params, call>>

\* return limits_bolo | limits_temp
MergeLimits ==
    /\ ret.kind = "none"
    /\ limits' = DictUnion(call.limits_bolo, call.limits_temp)
    /\ ret' = [kind |-> "return", value |-> "_limits"]
    /\ UNCHANGED <<config, t, m, initial, params, call>>

NextMerge ==
    \/ MergeGuesses
    \/ MergeLimits

SpecMerge == InitMerge /\ [][NextMerge]_vars

----------------------------------------------------------------------------
(* Properties *)

DeclaredBol == bolometric_parameters(bolometric)
DeclaredTemp == temperature_parameters(temperature)
SharedNames == Range(DeclaredBol) \cap Range(DeclaredTemp)

\* the value of the slot called n
Slot(n) == params[p_idx(n)]

\* the strategies evaluated with every argument taken from the slot of its name
bol_by_name(tt) ==
    IF bolometric = "sigmoid"
    THEN sigmoid(tt, Slot("reference_time"), Slot("amplitude"), Slot("rise_time"))
    ELSE bazin(tt, Slot("reference_time"), Slot("amplitude"), Slot("rise_time"),
               Slot("fall_time"))
temp_by_name(tt) ==
    IF temperature = "constant"
    THEN constant(tt, Slot("T"))
    ELSE logistic(tt, Slot("reference_time"), Slot("Tmin"), Slot("Tmax"), Slot("k_sig"))

\* C1: a parameter name declared by both strategies has exactly one slot of the
\* merged vector: it is once in _common_parameter_names (in bolometric order),
\* never in the bolometric-only or temperature-only names, and bol_func and
\* temp_func read that one slot for it.
C1_CommonNameOneSlot ==
    /\ Range(_common_parameter_names) = SharedNames
    /\ \A n \in SharedNames :
        /\ Count(n, _common_parameter_names) = 1
        /\ Count(n, p_names) = 1
        /\ ~InSeq(n, _bolometric_parameter_names)
        /\ ~InSeq(n, _temperature_parameter_names)
        /\ all_bol_idx[IndexOf(n, DeclaredBol)] = p_idx(n)
        /\ all_temp_idx[IndexOf(n, DeclaredTemp)] = p_idx(n)
        /\ \A k \in SharedNames :
            IndexOf(n, _common_parameter_names) < IndexOf(k, _common_parameter_names)
                <=> IndexOf(n, DeclaredBol) < IndexOf(k, DeclaredBol)
    /\ (call.op = "bol_func" /\ SharedNames # {}) =>
            Slice(params, all_bol_idx)[1] = Slot("reference_time")
    /\ (call.op = "temp_func" /\ SharedNames # {}) =>
            Slice(params, all_temp_idx)[1] = Slot("reference_time")

C1_Witness ==
    /\ SharedNames = {"reference_time"}
    /\ call.op = "temp_func"
    /\ bolometric = "bazin"
    /\ ret.value = temp_by_name(call.t)

\* the number of leading slots of each kind
NCommon == Cardinality(SharedNames)
NBolOnly == Cardinality(Range(DeclaredBol) \ SharedNames)
NTempOnly == Cardinality(Range(DeclaredTemp) \ SharedNames)
NBaseline == IF with_baseline THEN Len(bands) ELSE 0

\* C2: the returned vector is ordered common names, bolometric-only names,
\* temperature-only names, one baseline per band in band order (only with
\* with_baseline), reduced chi-square last; its length is the sum of the four
\* counts plus one: 8 for bazin+logistic without baseline, 12 with four bands
\* and baseline.
C2_ReturnedVectorLayout ==
    LET ns == names
        shared == SharedNames
        bolOnly == Range(DeclaredBol) \ shared
        tempOnly == Range(DeclaredTemp) \ shared
        n1 == NCommon
        n2 == n1 + NBolOnly
        n3 == n2 + NTempOnly
        n4 == n3 + NBaseline
    IN  /\ Len(ns) = n4 + 1
        /\ \A i \in DOMAIN ns :
            IF i <= n1 THEN ns[i] \in shared
            ELSE IF i <= n2 THEN ns[i] \in bolOnly
            ELSE IF i <= n3 THEN ns[i] \in tempOnly
            ELSE IF i <= n4 THEN ns[i] = baseline_parameter_name(bands[i - n3])
            ELSE ns[i] = "rainbow_chi2_dof"
        /\ Cardinality(Range(ns)) = Len(ns)
        /\ (bolometric = "bazin" /\ temperature = "logistic" /\ ~with_baseline)
                => Len(ns) = 8
        /\ (bolometric = "bazin" /\ temperature = "logistic" /\ with_baseline
                /\ Len(bands) = 4) => Len(ns) = 12
        /\ (call.op = "__call__" /\ ret.kind = "return") =>
                /\ Len(ret.value) = n4 + 1
                /\ ~call.failed => ret.value[Len(ret.value)] = 1

C2_Witness ==
    /\ call.op = "__call__"
    /\ ~call.failed
    /\ bolometric = "bazin"
    /\ temperature = "logistic"
    /\ with_baseline
    /\ Len(bands) = 4
    /\ Len(ret.value) = 12
    /\ names[8] = "baseline_g"
    /\ names[11] = "baseline_z"

\* C3: a fit call that cannot be evaluated or does not converge (all-equal
\* times included) returns, with fill_value given, a vector of the expected
\* length filled with fill_value, and with no fill_value signals a failure and
\* returns no result.
C3_FailureFallback ==
    call.op = "__call__" =>
        /\ degenerate(t) => call.failed
        /\ call.failed =>
            IF call.fill_value # <<>>
            THEN /\ ret.kind = "return"
                 /\ Len(ret.value) = NCommon + NBolOnly + NTempOnly + NBaseline + 1
                 /\ \A i \in DOMAIN ret.value : ret.value[i] = call.fill_value[1]
            ELSE /\ ret.kind = "raise"
                 /\ DOMAIN ret = {"kind"}

C3_Witness ==
    /\ call.op = "__call__"
    /\ degenerate(t)
    /\ Len(t) = 2
    /\ call.fill_value = <<-1>>
    /\ ret.kind = "return"
    /\ ret.value[1] = -1

\* the set of times the peak is sought in
PeakGrid == TimeGrid(params)

\* C4: peak_time returns the time at which the bolometric flux of the active
\* strategy is at its maximum (stated for bazin, whose flux has a maximum).
C4_PeakTimeIsMaximum ==
    (call.op = "peak_time" /\ bolometric = "bazin") =>
        \A tt \in PeakGrid : bol_func(tt, params) <= bol_func(ret.value, params)

MergedAs(merged, bolo, temp) ==
    /\ DOMAIN merged = (DOMAIN bolo) \cup (DOMAIN temp)
    /\ \A n \in DOMAIN temp : merged[n] = temp[n]
    /\ \A n \in (DOMAIN bolo) \ (DOMAIN temp) : merged[n] = bolo[n]

UnscaledByRole(n, x, t_scaler, m_scaler) ==
    CASE n = "reference_time" -> t_scaler.shift + t_scaler.scale * x
      [] n \in {"rise_time", "fall_time", "k_sig"} -> t_scaler.scale * x
      [] n = "amplitude" -> m_scaler.scale * (x * average_nu)
      [] OTHER -> x

\* C6: _unscale_parameters maps each slot by its role: reference_time to
\* shift + scale*x, rise_time, fall_time and k_sig to scale*x, amplitude to
\* flux_scale*(x*average_nu); every other slot keeps its value.
C6_UnscaleByRole ==
    [][(call.op = "params" /\ call'.op = "_unscale_parameters") =>
        /\ DOMAIN params' = DOMAIN params
        /\ \A i \in DOMAIN params :
            params'[i] =
                UnscaledByRole(p_names[i], params[i], call'.t_scaler, call'.m_scaler)]_vars

C6_Witness ==
    /\ call.op = "_unscale_parameters"
    /\ call.t_scaler = [shift |-> 5, scale |-> 3]
    /\ bolometric = "bazin"
    /\ temperature = "logistic"
    /\ with_baseline
    /\ Slot("reference_time") = 14
    /\ Slot("k_sig") = 6
    /\ Slot("Tmin") = 4000
    /\ Slot("baseline_g") = 7

\* what the formula assigned inside the guard tends to, left and right of it
logistic_asymptote_left(Tmin, Tmax) == Tmin + (Tmax - Tmin)
logistic_asymptote_right(Tmin, Tmax) == Tmin

Abs(x) == IF x < 0 THEN -x ELSE x

\* C7, bolometric part: outside the guard sigmoid and bazin are 0, and there is
\* no jump at the switch points.
C7_BolometricGuard ==
    call.op = "bol_func" =>
        LET t0 == Slot("reference_time")
            inside == IF bolometric = "sigmoid"
                      THEN sigmoid_idx(call.t, t0, Slot("rise_time"))
                      ELSE bazin_idx(call.t, t0, Slot("rise_time"), Slot("fall_time"))
        IN  /\ ~inside => ret.value = 0
            /\ Abs(bol_func(t0 - GuardFactor * Slot("rise_time"), params)
                    - bol_func(t0 - GuardFactor * Slot("rise_time") + 1, params))
                    <= 1
            /\ bolometric = "bazin" =>
                Abs(bol_func(t0 + GuardFactor * Slot("fall_time"), params)
                    - bol_func(t0 + GuardFactor * Slot("fall_time") - 1, params))
                    <= 1

\* C7, temperature part: each element is under exactly one mask of logistic,
\* outside the guard it gets the asymptote of the formula on that side, and
\* there is no jump at the switch points.
C7_LogisticGuard ==
    (call.op = "temp_func" /\ temperature = "logistic") =>
        LET t0 == Slot("reference_time")
            k == Slot("k_sig")
            idx == logistic_idx(call.t, t0, k)
        IN  /\ Cardinality({i \in 1..3 : idx[i]}) = 1
            /\ idx[1] => ret.value = logistic_asymptote_left(Slot("Tmin"), Slot("Tmax"))
            /\ idx[3] => ret.value = logistic_asymptote_right(Slot("Tmin"), Slot("Tmax"))
            /\ Abs(temp_func(t0 - GuardFactor * k, params)
                    - temp_func(t0 - GuardFactor * k + 1, params)) <= 1
            /\ Abs(temp_func(t0 + GuardFactor * k, params)
                    - temp_func(t0 + GuardFactor * k - 1, params)) <= 1

\* C7: every strategy function assigns each element once, outside the guard
\* region the asymptote of its own in-region formula on that side, so that no
\* function jumps at the switch points.
C7_GuardContinuity == C7_BolometricGuard /\ C7_LogisticGuard

\* C8: every initial guess of a strategy lies inside the bounds the same
\* strategy produces on the same data: low <= guess <= high and low <= high.
C8_GuessWithinLimits ==
    \A n \in (DOMAIN initial) \cap (DOMAIN limits) :
        /\ limits[n][1] <= initial[n]
        /\ initial[n] <= limits[n][2]
        /\ limits[n][1] <= limits[n][2]

NonBaselineNames ==
    Range(_common_parameter_names \o _bolometric_parameter_names
            \o _temperature_parameter_names)

\* C9: the keys of the merged initial guesses and of the merged limits are
\* both the set of non-baseline registry names.
C9_GuessAndLimitKeys ==
    /\ call.op = "_initial_guesses" => DOMAIN initial = NonBaselineNames
    /\ call.op = "_limits" => DOMAIN limits = NonBaselineNames
    /\ (DOMAIN initial # {} /\ DOMAIN limits # {}) => DOMAIN initial = DOMAIN limits

C9_Witness ==
    /\ call.op = "_limits"
    /\ temperature = "logistic"
    /\ bolometric = "bazin"
    /\ with_baseline
    /\ DOMAIN initial = DOMAIN limits
    /\ "k_sig" \in DOMAIN limits

\* the names of the slots a slice reads, in the order of the slice
SlicedNames(idx) == [i \in DOMAIN idx |-> p_names[idx[i]]]

\* C10: the declared names of every strategy are unique, as many as the
\* arguments of its evaluation function after t, and the common names followed
\* by the strategy's own names are its declared names in declared order, so
\* every sliced value goes to the positional argument of its meaning.
C10_DeclaredOrderKept ==
    /\ \A n \in Range(DeclaredBol) : Count(n, DeclaredBol) = 1
    /\ \A n \in Range(DeclaredTemp) : Count(n, DeclaredTemp) = 1
    /\ Len(DeclaredBol) = Len(bolometric_signature(bolometric)) - 1
    /\ Len(DeclaredTemp) = Len(temperature_signature(temperature)) - 1
    /\ _common_parameter_names \o _bolometric_parameter_names = DeclaredBol
    /\ _common_parameter_names \o _temperature_parameter_names = DeclaredTemp
    /\ SlicedNames(all_bol_idx) =
            IF bolometric = "sigmoid"
            THEN <<"reference_time", "amplitude", "rise_time">>
            ELSE <<"reference_time", "amplitude", "rise_time", "fall_time">>
    /\ SlicedNames(all_temp_idx) =
            IF temperature = "constant"
            THEN <<"T">>
            ELSE <<"reference_time", "Tmin", "Tmax", "k_sig">>
    /\ call.op = "bol_func" => ret.value = bol_by_name(call.t)
    /\ call.op = "temp_func" => ret.value = temp_by_name(call.t)

C10_Witness ==
    /\ call.op = "bol_func"
    /\ bolometric = "sigmoid"
    /\ temperature = "logistic"
    /\ SlicedNames(all_bol_idx) = sigmoid_parameter_names
    /\ ret.value > 0

====
